---- MODULE Spec2Model ----
(***************************************************************************)
(* Pallet packing engine of app/algorithms/PalletPiler/piler.py.           *)
(*                                                                         *)
(* solve_single_pallet builds a CP-SAT model and returns one of its        *)
(* solutions; solve_multiple_pallets calls it on the remaining items until *)
(* none remain or a call places nothing.  The solver is modelled by the    *)
(* set of assignments that satisfy the constraints the code adds; which    *)
(* of them is returned is the solver's choice.                             *)
(*                                                                         *)
(* The second part is the packing service around the engine:               *)
(* process_single_order of piler_adapter.py, its two callers (the queue    *)
(* consumer of services/packing_service.py and the start-up loop of        *)
(* add_initial_orders.py) and the order endpoints of                       *)
(* api/v1/endpoints/orders.py that feed the queue or change an order.      *)
(* All of them are coroutines of one event loop: a step of the model is    *)
(* the code between two awaits that matter.                                *)
(*                                                                         *)
(* Specifications: Spec and SpecComplete run the engine (with and without  *)
(* the solver's time limit), SpecService the whole service at start-up and *)
(* after, SpecQueue the queue consumer with the clock and the instructions *)
(* endpoint, SpecConsumerFair the consumer under fair scheduling, and      *)
(* SpecAssign the picking-order assigner on lists of items.                *)
(***************************************************************************)
EXTENDS Integers, Sequences, FiniteSets, TLC

VARIABLES
    pallet,         \* [W, D, H]: pallet_w, pallet_d, pallet_h of the call
    input,          \* the caller's item list as passed to solve_multiple_pallets
    items,          \* the list after items.sort(...)
    remaining,      \* remaining_items
    all_pallets,    \* all_pallets: sequence of [pallet_id, items]
    pallet_number,  \* pallet_number
    status,         \* status of the last solver.Solve(model)
    calls,          \* number of solve_single_pallet calls made so far
    pc,             \* position in solve_multiple_pallets
    db_status,      \* orders table: order_id -> committed status, "absent" without a row
    db_lines,       \* order_lines table: order_id -> sequence of [product_id, quantity_ordered]
    order_queue,    \* order_queue: sequence of [order_id, ticket]; the ticket numbers the put
    puts,           \* number of put calls on order_queue so far
    popped,         \* ticket of the entry the consumer took last
    finished,       \* number of consumer jobs whose process_single_order call has returned
    requests,       \* number of trigger_packing requests answered so far
    response,       \* the last answer of an endpoint: [order_id, status_code], and
                    \* from get_pallet_instructions the name of the file it read
    now,            \* datetime.now() at the resolution of the file name: the second of the run
    files,          \* Pallets_Json: the files in the directory, each [name, mtime]
    order_ids,      \* what is left of the list of trigger_packing_for_orders
    cpc,            \* caller -> position of its process_single_order call
    job,            \* caller -> [order_id, ticket] of its call
    all_items,      \* caller -> all_items of its call
    result,         \* caller -> indices of all_items on the pallets the engine returned
    ret             \* caller -> what its last process_single_order call returned

evars == <<pallet, input, items, remaining, all_pallets, pallet_number, status, calls, pc>>

svars == <<db_status, db_lines, order_queue, puts, popped, finished, requests, response, now,
           files, order_ids, cpc, job, all_items, result, ret>>

vars == <<evars, svars>>

-----------------------------------------------------------------------------
(* Bounds and program constants *)

MaxItems == 2

MAX_H_TO_BASE_RATIO == 3
OVERHANG_RATIO == 5
GAP_FILL_PENALTY == 10000
SAME_TYPE_STACKING_PENALTY == 1000

\* default weights of solve_single_pallet
gravity_weight == 150
corner_weight == 2
clustering_weight == 1
max_z_penalty == 4580
location_weight == 200
volume_weight == 1000

Abs(a) == IF a >= 0 THEN a ELSE -a

Min2(a, b) == IF a <= b THEN a ELSE b
Max2(a, b) == IF a >= b THEN a ELSE b

-----------------------------------------------------------------------------
(* Inputs: item kinds and pallets.  name and type_id are strings in the    *)
(* code; only their order and equality matter, so they are numbers here.   *)

Kind(name, w, d, h, po, tip, frag) ==
    [name |-> name, w |-> w, d |-> d, h |-> h, picking_order |-> po,
     allow_tipping |-> tip, is_fragile |-> frag]

\* a pallet with the item kinds that are offered to it, at most `most` items
Scenarios ==
    { \* small boxes: two picking orders, a fragile kind, upright-only kinds
      [W |-> 2, D |-> 2, H |-> 2, most |-> MaxItems,
       kinds |-> { Kind(1, 2, 2, 1, 1, TRUE, FALSE),
                   Kind(2, 1, 1, 1, 2, FALSE, FALSE),
                   Kind(3, 1, 1, 1, 1, FALSE, TRUE),
                   Kind(4, 2, 1, 1, 2, FALSE, FALSE) }],
      \* pencils, taller than three times their base, and a plate that never fits
      [W |-> 4, D |-> 1, H |-> 1, most |-> MaxItems,
       kinds |-> { Kind(1, 1, 1, 4, 1, TRUE, FALSE),
                   Kind(2, 1, 1, 1, 1, TRUE, FALSE),
                   Kind(3, 1, 1, 4, 1, FALSE, FALSE),
                   Kind(4, 2, 2, 1, 1, TRUE, FALSE) }],
      \* long boards: the 5% overhang tolerance is one unit
      [W |-> 21, D |-> 1, H |-> 2, most |-> MaxItems,
       kinds |-> { Kind(1, 20, 1, 1, 2, FALSE, FALSE),
                   Kind(2, 19, 1, 1, 1, FALSE, FALSE),
                   Kind(3, 18, 1, 1, 1, FALSE, FALSE) }],
      \* a shaft: a lying board fits it only stood on its end, more than three
      \* times as high as its base
      [W |-> 1, D |-> 1, H |-> 4, most |-> MaxItems,
       kinds |-> { Kind(1, 4, 1, 1, 1, TRUE, FALSE),
                   Kind(2, 1, 1, 1, 1, FALSE, FALSE) }],
      \* two columns: the wide box is supported by the floor only, so a third
      \* box goes on top of one of the narrow ones
      [W |-> 9, D |-> 3, H |-> 2, most |-> 3,
       kinds |-> { Kind(1, 4, 3, 1, 1, FALSE, FALSE),
                   Kind(2, 5, 3, 1, 2, FALSE, FALSE) }],
      \* one layer: two products of one size, and room for one box
      [W |-> 3, D |-> 2, H |-> 1, most |-> MaxItems,
       kinds |-> { Kind(1, 3, 2, 1, 1, FALSE, FALSE),
                   Kind(2, 3, 2, 1, 1, FALSE, FALSE) }],
      \* the upright-enforcement scenario of the specification
      [W |-> 100, D |-> 100, H |-> 100, most |-> 1,
       kinds |-> { Kind(1, 10, 10, 60, 1, FALSE, FALSE) }] }

\* Item.__init__: id is the position in the caller's list
MkItem(i, k) ==
    [id |-> i, name |-> k.name, type_id |-> k.name, w |-> k.w, d |-> k.d, h |-> k.h,
     volume |-> k.w * k.d * k.h, picking_order |-> k.picking_order,
     allow_tipping |-> k.allow_tipping, is_fragile |-> k.is_fragile]

-----------------------------------------------------------------------------
(* Sorting *)

\* the key of items.sort in solve_multiple_pallets: a sorts strictly before b
PreSortLess(a, b) ==
    \/ a.picking_order < b.picking_order
    \/ /\ a.picking_order = b.picking_order
       /\ \/ a.w * a.d > b.w * b.d
          \/ a.w * a.d = b.w * b.d /\ a.name < b.name

\* list.sort is stable: e, which stood before every element of the sorted
\* list s, goes in front of the first element that does not sort before it
RECURSIVE PreSortInsert(_, _)
PreSortInsert(s, e) ==
    IF s = <<>> THEN <<e>>
    ELSE IF ~PreSortLess(Head(s), e) THEN <<e>> \o s
    ELSE <<Head(s)>> \o PreSortInsert(Tail(s), e)

RECURSIVE PreSort(_)
PreSort(s) ==
    IF s = <<>> THEN <<>> ELSE PreSortInsert(PreSort(Tail(s)), Head(s))

\* the key of packed_items_data.sort: (z, y, x)
PostSortLess(a, b) ==
    \/ a.z < b.z
    \/ a.z = b.z /\ a.y < b.y
    \/ a.z = b.z /\ a.y = b.y /\ a.x < b.x

RECURSIVE PostSortInsert(_, _)
PostSortInsert(s, e) ==
    IF s = <<>> THEN <<e>>
    ELSE IF ~PostSortLess(Head(s), e) THEN <<e>> \o s
    ELSE <<Head(s)>> \o PostSortInsert(Tail(s), e)

RECURSIVE PostSort(_)
PostSort(s) ==
    IF s = <<>> THEN <<>> ELSE PostSortInsert(PostSort(Tail(s)), Head(s))

-----------------------------------------------------------------------------
(* The constraint model of solve_single_pallet.                            *)
(*                                                                         *)
(* An assignment gives every candidate item a record                       *)
(*   [packed, x, y, z, o, spin]                                            *)
(* o is the index k with orientation[i][k] = 1.  The auxiliary Booleans    *)
(* (left .. above, x_supported, is_valid_base, on_ground, gap_fill) are    *)
(* quantified away: a constraint "b => linear" with b otherwise free holds *)
(* for some value of b.                                                    *)

\* EffDims whose upright rows take the item's width as current_h
MutEffDims(item, o, spin) ==
    IF o = 0 THEN (IF ~spin THEN [w |-> item.w, d |-> item.d, h |-> item.w]
                            ELSE [w |-> item.d, d |-> item.w, h |-> item.w])
    ELSE IF o = 1 THEN (IF ~spin THEN [w |-> item.h, d |-> item.d, h |-> item.w]
                                 ELSE [w |-> item.d, d |-> item.h, h |-> item.w])
    ELSE (IF ~spin THEN [w |-> item.w, d |-> item.h, h |-> item.d]
                   ELSE [w |-> item.h, d |-> item.w, h |-> item.d])

\* current_w, current_d, current_h for orientation o and spin
EffDims(item, o, spin) ==
    IF o = 0 THEN (IF ~spin THEN [w |-> item.w, d |-> item.d, h |-> item.h]
                            ELSE [w |-> item.d, d |-> item.w, h |-> item.h])
    ELSE IF o = 1 THEN (IF ~spin THEN [w |-> item.h, d |-> item.d, h |-> item.w]
                                 ELSE [w |-> item.d, d |-> item.h, h |-> item.w])
    ELSE (IF ~spin THEN [w |-> item.w, d |-> item.h, h |-> item.d]
                   ELSE [w |-> item.h, d |-> item.w, h |-> item.d])

\* upright-first: an upright-only item has orientation[0] = 1; a tippable one
\* may leave orientation 0 only with gap_fill, which implies is_packed
UprightRule(item, o, packed) ==
    IF item.allow_tipping THEN (o # 0 => packed) ELSE o = 0

\* AspectRule that checks the upright orientation only
MutAspectRule(item, o) ==
    (item.h > Min2(item.w, item.d) * MAX_H_TO_BASE_RATIO) => o # 0

\* physics checks: orientations the aspect ratio forbids
AspectRule(item, o) ==
    /\ (item.h > Min2(item.w, item.d) * MAX_H_TO_BASE_RATIO) => o # 0
    /\ (item.allow_tipping /\ item.w > Min2(item.h, item.d) * MAX_H_TO_BASE_RATIO) => o # 1
    /\ (item.allow_tipping /\ item.d > Min2(item.w, item.h) * MAX_H_TO_BASE_RATIO) => o # 2

\* orientations a packed item may take
Orients(item) ==
    { o \in 0..2 : UprightRule(item, o, TRUE) /\ AspectRule(item, o) }

\* Boundaries with the x bound on the origin instead of the far face
MutBoundaries(P, e, x, y, z) ==
    /\ x <= P.W
    /\ y + e.d <= P.D
    /\ z + e.h <= P.H

\* boundaries of a packed item with effective dimensions e at (x, y, z)
Boundaries(P, e, x, y, z) ==
    /\ x + e.w <= P.W
    /\ y + e.d <= P.D
    /\ z + e.h <= P.H

\* tol_w, tol_d of AddDivisionEquality, with their domains 0..pallet_w, 0..pallet_d
Tol(edge) == (edge * OVERHANG_RATIO) \div 100

TolInDomain(P, e) == Tol(e.w) <= P.W /\ Tol(e.d) <= P.D

\* the assignments of one packed item: x, y, z range over their IntVar domains
Placements(item, P, n) ==
    UNION { LET e == EffDims(item, os[1], os[2]) IN
            IF n > 1 /\ ~TolInDomain(P, e) THEN {}
            ELSE { c \in [packed : {TRUE}, x : 0..P.W, y : 0..P.D, z : 0..P.H,
                          o : {os[1]}, spin : {os[2]}] :
                     Boundaries(P, e, c.x, c.y, c.z) }
          : os \in Orients(item) \X BOOLEAN }

\* the assignment of an item left out; its x, y, z are free and kept at 0
Unplaced == [packed |-> FALSE, x |-> 0, y |-> 0, z |-> 0, o |-> 0, spin |-> FALSE]

\* an item can be left out only if its unconditional constraints are consistent:
\* without is_packed it has orientation[0] = 1, which the aspect rule may forbid,
\* and its tolerances must lie in their domains (they exist only in the pair loop)
CanLeaveOut(item, P, n) ==
    /\ UprightRule(item, 0, FALSE)
    /\ AspectRule(item, 0)
    /\ n > 1 => \E spin \in BOOLEAN : TolInDomain(P, EffDims(item, 0, spin))

Choices(item, P, n) ==
    (IF CanLeaveOut(item, P, n) THEN {Unplaced} ELSE {}) \cup Placements(item, P, n)

\* an item fits alone on the empty pallet: some orientation the upright and
\* aspect rules allow keeps it inside the pallet at the origin
FitsAlone(item, P) ==
    \E o \in 0..2, spin \in BOOLEAN :
        /\ (item.allow_tipping \/ o = 0)
        /\ (o = 0 => item.h <= 3 * Min2(item.w, item.d))
        /\ (o = 1 => item.w <= 3 * Min2(item.h, item.d))
        /\ (o = 2 => item.d <= 3 * Min2(item.w, item.h))
        /\ LET e == EffDims(item, o, spin)
           IN  e.w <= P.W /\ e.d <= P.D /\ e.h <= P.H

\* PickingAllowsOver with the location ordering left out
MutPickingAllowsOver(top, bottom) == TRUE

\* location ordering: an item picked first (lower picking_order) is never over
\* one picked later ("above" of the pair is False, "below" of the mirrored pair)
PickingAllowsOver(top, bottom) == ~(top.picking_order < bottom.picking_order)

\* FragileAllowsOver with the fragile rule left out
MutFragileAllowsOver(top, bottom) == TRUE

\* fragile rule: nothing over a fragile item
FragileAllowsOver(top, bottom) == ~bottom.is_fragile

\* "above" of the ordered pair (a, b) may be true: a over b
AboveAllowed(a, b) == PickingAllowsOver(a, b) /\ FragileAllowsOver(a, b)

\* "below" of the ordered pair (a, b) may be true: b over a
BelowAllowed(a, b) == PickingAllowsOver(b, a) /\ FragileAllowsOver(b, a)

\* Separated with "left" and "right" comparing origins only
MutSeparated(a, ca, b, cb) ==
    LET ea == EffDims(a, ca.o, ca.spin)
        eb == EffDims(b, cb.o, cb.spin)
    IN  \/ ca.x < cb.x
        \/ cb.x < ca.x
        \/ ca.y + ea.d <= cb.y
        \/ cb.y + eb.d <= ca.y
        \/ BelowAllowed(a, b) /\ ca.z + ea.h <= cb.z
        \/ AboveAllowed(a, b) /\ cb.z + eb.h <= ca.z

\* collision constraint of the ordered pair (i, j), both packed: one of the six
\* separations holds, and "above"/"below" only where they are allowed.
\* a, b are the items, ca, cb their assignments
Separated(a, ca, b, cb) ==
    LET ea == EffDims(a, ca.o, ca.spin)
        eb == EffDims(b, cb.o, cb.spin)
    IN  \/ ca.x + ea.w <= cb.x                          \* left
        \/ cb.x + eb.w <= ca.x                          \* right
        \/ ca.y + ea.d <= cb.y                          \* behind
        \/ cb.y + eb.d <= ca.y                          \* front
        \/ BelowAllowed(a, b) /\ ca.z + ea.h <= cb.z    \* below
        \/ AboveAllowed(a, b) /\ cb.z + eb.h <= ca.z    \* above

\* IsValidBase without the implication is_valid_base => is_packed[j]
MutIsValidBase(a, ca, b, cb) ==
    LET ea == EffDims(a, ca.o, ca.spin)
        eb == EffDims(b, cb.o, cb.spin)
        tol_w == Tol(ea.w)
        tol_d == Tol(ea.d)
    IN  /\ AboveAllowed(a, b) /\ cb.z + eb.h <= ca.z
        /\ ca.x >= cb.x - tol_w
        /\ ca.x + ea.w <= cb.x + eb.w + tol_w
        /\ ca.y >= cb.y - tol_d
        /\ ca.y + ea.d <= cb.y + eb.d + tol_d
        /\ ca.z = cb.z + eb.h

\* is_valid_base of the pair (i, j): i rests on j
IsValidBase(a, ca, b, cb) ==
    LET ea == EffDims(a, ca.o, ca.spin)
        eb == EffDims(b, cb.o, cb.spin)
        tol_w == Tol(ea.w)
        tol_d == Tol(ea.d)
    IN  /\ cb.packed                                    \* no ghost supports
        /\ AboveAllowed(a, b) /\ cb.z + eb.h <= ca.z    \* above
        /\ ca.x >= cb.x - tol_w                         \* x_supported
        /\ ca.x + ea.w <= cb.x + eb.w + tol_w
        /\ ca.y >= cb.y - tol_d                         \* y_supported
        /\ ca.y + ea.d <= cb.y + eb.d + tol_d
        /\ ca.z = cb.z + eb.h

\* on_ground or one of supported_by
Supported(its, s, i) ==
    \/ s[i].z = 0
    \/ \E j \in 1..Len(its) : j # i /\ IsValidBase(its[i], s[i], its[j], s[j])

\* assignments of the first k candidates whose packed pairs are separated
RECURSIVE Partial(_, _, _)
Partial(its, P, k) ==
    IF k = 0 THEN { <<>> }
    ELSE UNION { { Append(s, c) :
                     c \in { c \in Choices(its[k], P, Len(its)) :
                               c.packed =>
                                 \A j \in 1..(k-1) :
                                    s[j].packed =>
                                      /\ Separated(its[k], c, its[j], s[j])
                                      /\ Separated(its[j], s[j], its[k], c) } }
                 : s \in Partial(its, P, k - 1) }

\* the feasible assignments of the model built for the candidate list its
Solutions(its, P) ==
    { s \in Partial(its, P, Len(its)) :
        \A i \in 1..Len(its) : s[i].packed => Supported(its, s, i) }

-----------------------------------------------------------------------------
(* The objective.  Auxiliary variables take the value that is best for the *)
(* objective: max_z the highest top, gap_fill only where an item is tipped, *)
(* the clustering distances the absolute differences, i_stacked_on_j only  *)
(* where "above" is forced.                                                *)

RECURSIVE Sum(_, _)
Sum(f, k) == IF k = 0 THEN 0 ELSE f[k] + Sum(f, k - 1)

RECURSIVE MaxOf(_, _)
MaxOf(f, k) == IF k = 0 THEN 0 ELSE Max2(f[k], MaxOf(f, k - 1))

Top(its, s, i) == s[i].z + EffDims(its[i], s[i].o, s[i].spin).h

\* prev_i = last_seen_index_by_name[item.name], 0 if the name is new
PrevSameName(its, i) ==
    LET before == { j \in 1..(i - 1) : its[j].name = its[i].name }
    IN  IF before = {} THEN 0 ELSE CHOOSE j \in before : \A m \in before : m <= j

\* c_dx + c_dy + 4 * c_dz of item i
ClusteringDist(its, s, i) ==
    LET p == PrevSameName(its, i)
    IN  IF p = 0 \/ ~s[i].packed \/ ~s[p].packed THEN 0
        ELSE Abs(s[i].x - s[p].x) + Abs(s[i].y - s[p].y) + 4 * Abs(s[i].z - s[p].z)

\* "above" of the pair (i, j) is forced: both packed, no horizontal separation, i over j
AboveForced(its, s, i, j) ==
    LET ei == EffDims(its[i], s[i].o, s[i].spin)
        ej == EffDims(its[j], s[j].o, s[j].spin)
    IN  /\ s[i].packed /\ s[j].packed
        /\ s[i].x < s[j].x + ej.w /\ s[j].x < s[i].x + ei.w
        /\ s[i].y < s[j].y + ej.d /\ s[j].y < s[i].y + ei.d
        /\ s[j].z + ej.h <= s[i].z

\* total_stacking_penalty
StackingCount(its, s) ==
    Cardinality({ p \in (1..Len(its)) \X (1..Len(its)) :
                    /\ p[1] # p[2]
                    /\ its[p[1]].type_id = its[p[2]].type_id
                    /\ AboveForced(its, s, p[1], p[2]) })

Objective(its, s) ==
    LET n == Len(its)
        max_picking_order == MaxOf([i \in 1..n |-> its[i].picking_order], n)
        volume_score == Sum([i \in 1..n |-> IF s[i].packed THEN its[i].volume ELSE 0], n)
        max_z == MaxOf([i \in 1..n |-> IF s[i].packed THEN Top(its, s, i) ELSE 0], n)
        gravity_score == Sum([i \in 1..n |-> s[i].z * gravity_weight], n)
        corner_score == Sum([i \in 1..n |-> s[i].x + s[i].y], n)
        gap_fill_total == Sum([i \in 1..n |->
                                 IF its[i].allow_tipping /\ s[i].packed /\ s[i].o # 0
                                 THEN 1 ELSE 0], n)
        total_clustering_dist == Sum([i \in 1..n |-> ClusteringDist(its, s, i)], n)
        location_order_score ==
            Sum([i \in 1..n |-> s[i].z * (max_picking_order - its[i].picking_order + 1)], n)
    IN  (volume_score * volume_weight)
        - (max_z * max_z_penalty)
        - gravity_score
        - (corner_score * corner_weight)
        - (gap_fill_total * GAP_FILL_PENALTY)
        - (total_clustering_dist * clustering_weight)
        - (StackingCount(its, s) * SAME_TYPE_STACKING_PENALTY)
        - (location_order_score * location_weight)

\* the assignments of S with the greatest objective
Optimal(its, S) ==
    LET val == [s \in S |-> Objective(its, s)]
    IN  { s \in S : \A u \in S : val[u] <= val[s] }

-----------------------------------------------------------------------------
(* What solve_single_pallet returns *)

\* the record appended to packed_items_data for a packed item
Emit(item, c) ==
    LET e == EffDims(item, c.o, c.spin)
    IN  [id |-> item.id, name |-> item.name, type_id |-> item.type_id,
         picking_order |-> item.picking_order,
         x |-> c.x, y |-> c.y, z |-> c.z,
         w |-> e.w, h |-> e.h, d |-> e.d,
         tipped |-> ~(c.o = 0)]

\* the indices i (in list order) with keep[i]
RECURSIVE Indices(_, _, _)
Indices(s, i, wantPacked) ==
    IF i > Len(s) THEN <<>>
    ELSE (IF s[i].packed = wantPacked THEN <<i>> ELSE <<>>) \o Indices(s, i + 1, wantPacked)

\* unpacked_indices of a solution
UnpackedIndices(s) == Indices(s, 1, FALSE)

\* packed_items_data of a solution: emitted in list order, then sorted by (z, y, x)
PackedItemsData(its, s) ==
    LET idx == Indices(s, 1, TRUE)
    IN  PostSort([k \in 1..Len(idx) |-> Emit(its[idx[k]], s[idx[k]])])

\* status OPTIMAL / FEASIBLE
Solved(its, s, st) ==
    [packed |-> PackedItemsData(its, s), unpacked |-> UnpackedIndices(s), status |-> st]

\* any other status: nothing packed, every index unpacked
NotSolved(its, st) ==
    [packed |-> <<>>, unpacked |-> [k \in 1..Len(its) |-> k], status |-> st]

\* the outcomes of solve_single_pallet when the search runs to completion
Complete(its, S) ==
    IF S = {} THEN { NotSolved(its, "INFEASIBLE") }
    ELSE { Solved(its, s, "OPTIMAL") : s \in Optimal(its, S) }

\* the outcomes when the search stops at max_time_in_seconds: the best assignment
\* found so far, which may be any feasible one, or none
TimeLimit(its, S) ==
    { Solved(its, s, "FEASIBLE") : s \in S } \cup { NotSolved(its, "UNKNOWN") }

\* solve_single_pallet(items, pallet_w, pallet_d, pallet_h)
SolveSinglePallet(its, P, mayStop) ==
    LET S == Solutions(its, P)
    IN  Complete(its, S) \cup (IF mayStop THEN TimeLimit(its, S) ELSE {})

-----------------------------------------------------------------------------
(* The packing service: data.  order_number, sku and name are strings in   *)
(* the code; only their equality matters, so they are numbers here.  A     *)
(* location_code is the sequence of its characters, each a number; the     *)
(* empty sequence is the empty string of a product without inventory.      *)

MaxOrders == 2
MaxRequests == 2
MaxLocated == 3
MaxQueued == 2
MaxTime == 1

pallet_H == 150
pallet_W == 80
pallet_D == 120

\* OrderStatus with a member READY
MutOrderStatus ==
    [NEW |-> "new", PICKING |-> "picking", PACKING |-> "packing",
     SHIPPED |-> "shipped", CANCELLED |-> "cancelled", READY |-> "ready"]

\* class OrderStatus: member name -> value
OrderStatus ==
    [NEW |-> "new", PICKING |-> "picking", PACKING |-> "packing",
     SHIPPED |-> "shipped", CANCELLED |-> "cancelled"]

OrderIds == 1..MaxOrders

\* the coroutines that call process_single_order: the queue consumer and the
\* loop of trigger_packing_for_orders that create_test_data runs at start-up
Callers == {"consumer", "direct"}

\* the products table with the location of each product's inventory row:
\* a box that fits the pallet and a crate larger than the pallet
Products ==
    (1 :> [sku |-> 1, name |-> 1, width_cm |-> 40, length_cm |-> 30, height_cm |-> 30,
           requires_upright |-> FALSE, is_fragile |-> FALSE, location_code |-> <<2>>])
    @@
    (2 :> [sku |-> 2, name |-> 2, width_cm |-> 200, length_cm |-> 200, height_cm |-> 200,
           requires_upright |-> TRUE, is_fragile |-> FALSE, location_code |-> <<>>])

Line(product_id, quantity_ordered) ==
    [product_id |-> product_id, quantity_ordered |-> quantity_ordered]

\* the order lines an order can have; product 3 has no row in products
LineMenu ==
    << <<Line(1, 1), Line(1, 1)>>,
       <<Line(1, 1), Line(2, 1)>>,
       <<Line(3, 1)>>,
       <<>> >>

\* the order_lines table in which order o has the lines of menu entry o + shift
OrderLines(shift) ==
    [o \in OrderIds |-> LineMenu[((o + shift) % Len(LineMenu)) + 1]]

\* piler.Item(id=f"{product.sku}-{i}", ...): the id is the pair of its two parts
NewItem(product, i) ==
    [id |-> <<product.sku, i>>, name |-> product.name,
     w |-> product.width_cm, d |-> product.length_cm, h |-> product.height_cm,
     allow_tipping |-> ~product.requires_upright, is_fragile |-> product.is_fragile,
     type_id |-> product.sku, location |-> product.location_code, picking_order |-> 1]

\* the loop over order_lines: a line whose product is missing is skipped
RECURSIVE BuildItems(_)
BuildItems(lines) ==
    IF lines = <<>> THEN <<>>
    ELSE LET line == Head(lines)
         IN  (IF line.product_id \in DOMAIN Products
              THEN [i \in 1..line.quantity_ordered |->
                       NewItem(Products[line.product_id], i - 1)]
              ELSE <<>>) \o BuildItems(Tail(lines))

\* the location codes of the warehouse: "", "1", "10" and "2"
LocationCodes == { <<>>, <<1>>, <<1, 0>>, <<2>> }

\* the product with its inventory row at the location with this code
Stocked(product, code) == [product EXCEPT !.location_code = code]

\* a < b of two str values: at the first position where they differ a has the
\* smaller character, or a ends there
LexLess(a, b) ==
    \E k \in 1..(Min2(Len(a), Len(b)) + 1) :
        /\ \A i \in 1..(k - 1) : a[i] = b[i]
        /\ IF k > Len(a) THEN k <= Len(b)
           ELSE k <= Len(b) /\ a[k] < b[k]

\* sorted(S) of a set of str values
RECURSIVE SortedCodes(_)
SortedCodes(S) ==
    IF S = {} THEN <<>>
    ELSE LET m == CHOOSE m \in S : \A l \in S \ {m} : LexLess(m, l)
         IN  <<m>> \o SortedCodes(S \ {m})

\* AssignPickingOrder that numbers the locations in the order in which the
\* items of the list bring them up
MutAssignPickingOrder(its) ==
    [k \in 1..Len(its) |->
       LET first == CHOOSE j \in 1..k :
                       /\ its[j].location = its[k].location
                       /\ \A m \in 1..(j - 1) : its[m].location # its[k].location
       IN  [its[k] EXCEPT !.picking_order =
               1 + Cardinality({ its[m].location : m \in 1..(first - 1) })]]

\* unique_locations = sorted(set(...)); location_to_order = {loc: idx + 1};
\* each item gets location_to_order[item.location]
AssignPickingOrder(its) ==
    LET unique_locations == SortedCodes({ its[k].location : k \in 1..Len(its) })
        location_to_order ==
            [loc \in { its[k].location : k \in 1..Len(its) } |->
                CHOOSE idx \in 1..Len(unique_locations) : unique_locations[idx] = loc]
    IN  [k \in 1..Len(its) |->
           [its[k] EXCEPT !.picking_order = location_to_order[its[k].location]]]

\* the pallet process_single_order passes to the engine
AdapterPallet == [W |-> pallet_W, D |-> pallet_D, H |-> pallet_H]

NoJob == [order_id |-> 0, ticket |-> 0, filename |-> <<>>]
NoResponse == [order_id |-> 0, status_code |-> 0]

\* the service before anything has been put on the queue
ServiceIdle ==
    /\ order_queue = <<>>
    /\ puts = 0
    /\ popped = 0
    /\ finished = 0
    /\ requests = 0
    /\ response = NoResponse
    /\ now = 0
    /\ files = {}
    /\ cpc = [c \in Callers |-> "idle"]
    /\ job = [c \in Callers |-> NoJob]
    /\ all_items = [c \in Callers |-> <<>>]
    /\ result = [c \in Callers |-> {}]
    /\ ret = [c \in Callers |-> <<>>]

-----------------------------------------------------------------------------
(* solve_multiple_pallets *)

\* Keep that starts at the second unpacked index
MutKeep(rem, unpacked) == [k \in 1..(Len(unpacked) - 1) |-> rem[unpacked[k + 1]]]

\* remaining_items = [remaining_items[i] for i in unpacked_indices]
Keep(rem, unpacked) == [k \in 1..Len(unpacked) |-> rem[unpacked[k]]]

Init ==
    /\ \E sc \in Scenarios : \E n \in 0..sc.most :
         \E ks \in [1..n -> sc.kinds] :
            /\ pallet = [W |-> sc.W, D |-> sc.D, H |-> sc.H]
            /\ input = [i \in 1..n |-> MkItem(i, ks[i])]
    /\ items = <<>>
    /\ remaining = <<>>
    /\ all_pallets = <<>>
    /\ pallet_number = 1
    /\ status = "NONE"
    /\ calls = 0
    /\ pc = "start"
    /\ db_status = [o \in OrderIds |-> "absent"]
    /\ db_lines = [o \in OrderIds |-> <<>>]
    /\ order_ids = <<>>
    /\ ServiceIdle

\* all_pallets = []; items.sort(...); remaining_items = items.copy(); pallet_number = 1
Begin ==
    /\ pc = "start"
    /\ items' = PreSort(input)
    /\ remaining' = items'
    /\ all_pallets' = <<>>
    /\ pallet_number' = 1
    /\ pc' = "loop"
    /\ UNCHANGED <<pallet, input, status, calls>>
    /\ UNCHANGED svars

\* Break of a loop that goes on after a solve without placements
MutBreak(packed) == FALSE

\* if len(packed) == 0: break
Break(packed) == Len(packed) = 0

\* one pass of the while loop with the result r of solve_single_pallet
Pass(r) ==
    /\ status' = r.status
    /\ calls' = calls + 1
    /\ IF Break(r.packed)
       THEN /\ pc' = "done"                                      \* break
            /\ UNCHANGED <<remaining, all_pallets, pallet_number>>
       ELSE /\ all_pallets' = Append(all_pallets,
                                     [pallet_id |-> pallet_number, items |-> r.packed])
            /\ remaining' = Keep(remaining, r.unpacked)
            /\ pallet_number' = pallet_number + 1
            /\ pc' = "loop"
    /\ UNCHANGED <<pallet, input, items>>
    /\ UNCHANGED svars

\* the loop body while len(remaining_items) > 0
Iteration ==
    /\ pc = "loop"
    /\ Len(remaining) > 0
    /\ \E r \in SolveSinglePallet(remaining, pallet, TRUE) : Pass(r)

\* the loop body when every search ends before the time limit
IterationComplete ==
    /\ pc = "loop"
    /\ Len(remaining) > 0
    /\ \E r \in SolveSinglePallet(remaining, pallet, FALSE) : Pass(r)

\* the loop condition fails: return all_pallets
Return ==
    /\ pc = "loop"
    /\ Len(remaining) = 0
    /\ pc' = "done"
    /\ UNCHANGED <<pallet, input, items, remaining, all_pallets, pallet_number, status, calls>>
    /\ UNCHANGED svars

Next == Begin \/ Iteration \/ Return

Spec == Init /\ [][Next]_vars

\* every solver call runs to completion (OPTIMAL or INFEASIBLE)
NextComplete == Begin \/ IterationComplete \/ Return

SpecComplete == Init /\ [][NextComplete]_vars

-----------------------------------------------------------------------------
(* The packing service: process_single_order and its callers *)

\* the positions inside the synchronous stretch of process_single_order, from
\* the call of the engine to the await of commit or rollback: no other
\* coroutine of the event loop runs while a caller is at one of them
SyncPositions == {"solve", "write", "status"}

\* LoopFree of an event loop that runs other coroutines during a synchronous stretch
MutLoopFree == TRUE

\* no caller is inside its synchronous stretch
LoopFree == \A c \in Callers : cpc[c] \notin SyncPositions

\* the lifespan start-up has finished and requests are served
Serving == order_ids = <<>> /\ cpc["direct"] = "idle"

\* what solve_multiple_pallets can return for these items on the adapter's
\* pallet, as the indices of the items on its pallets: an item that does not fit
\* alone is on none, every other item may be placed or left behind a halt
EngineResults(its) ==
    SUBSET { i \in 1..Len(its) : FitsAlone(its[i], AdapterPallet) }

\* the order_number column: a client chooses it at POST /orders, unique, up to
\* 50 characters.  Order 1 is "7", order o is "7_o"
OrderNumber(o) == IF o = 1 THEN <<"7">> ELSE <<"7", "_", ToString(o)>>

\* datetime.now().strftime('%Y%m%d_%H%M%S') in second t of the run
Stamp(t) == <<"20260101", "_", ToString(t)>>

\* f"pallet_instructions_{order.order_number}_{stamp}.json", as the sequence of
\* its parts
FileName(order_number, stamp) ==
    <<"pallet", "_", "instructions", "_">> \o order_number \o <<"_">> \o Stamp(stamp)
        \o <<".json">>

\* f"pallet_instructions_{order.order_number}_*.json"
Pattern(order_number) ==
    <<"pallet", "_", "instructions", "_">> \o order_number \o <<"_", "*", ".json">>

\* glob: "*" stands for any run of characters, every other part for itself
RECURSIVE GlobMatch(_, _)
GlobMatch(pat, s) ==
    IF pat = <<>> THEN s = <<>>
    ELSE IF Head(pat) = "*"
         THEN \E k \in 0..Len(s) : GlobMatch(Tail(pat), SubSeq(s, k + 1, Len(s)))
         ELSE s # <<>> /\ Head(s) = Head(pat) /\ GlobMatch(Tail(pat), Tail(s))

\* the names of the files of a directory
Names(dir) == { f.name : f \in dir }

\* open(filename, 'w') and json.dump at second t: a file of that name is replaced
WriteFile(dir, filename, t) ==
    { f \in dir : f.name # filename } \cup { [name |-> filename, mtime |-> t] }

\* process_single_order returns None
ReturnNone(c) ==
    /\ cpc' = [cpc EXCEPT ![c] = "returned"]
    /\ ret' = [ret EXCEPT ![c] = <<>>]

InitService ==
    /\ pallet = AdapterPallet
    /\ input = <<>>
    /\ items = <<>>
    /\ remaining = <<>>
    /\ all_pallets = <<>>
    /\ pallet_number = 1
    /\ status = "NONE"
    /\ calls = 0
    /\ pc = "start"
    /\ db_status = [o \in OrderIds |-> OrderStatus.NEW]
    /\ \E shift \in 1..Len(LineMenu) : db_lines = OrderLines(shift)
    /\ \E seeded \in 0..MaxOrders :
         /\ order_ids = [k \in 1..seeded |-> k]
         /\ order_queue = [k \in 1..seeded |-> [order_id |-> k, ticket |-> k]]
         /\ puts = seeded
    /\ popped = 0
    /\ finished = 0
    /\ requests = 0
    /\ response = NoResponse
    /\ now = 0
    /\ files = {}
    /\ cpc = [c \in Callers |-> "idle"]
    /\ job = [c \in Callers |-> NoJob]
    /\ all_items = [c \in Callers |-> <<>>]
    /\ result = [c \in Callers |-> {}]
    /\ ret = [c \in Callers |-> <<>>]

\* Get that takes the newest entry
MutGet(q) == [item |-> q[Len(q)], rest |-> SubSeq(q, 1, Len(q) - 1)]

\* asyncio.Queue.get: the oldest entry
Get(q) == [item |-> Head(q), rest |-> Tail(q)]

\* the consumer is at `await order_queue.get()`
ConsumerWaits == cpc["consumer"] = "idle"

\* process_order_queue: get an id, open a session, call process_single_order
Pop ==
    /\ ConsumerWaits
    /\ LoopFree
    /\ order_queue # <<>>
    /\ LET g == Get(order_queue)
       IN  /\ order_queue' = g.rest
           /\ job' = [job EXCEPT !["consumer"] =
                         [order_id |-> g.item.order_id, ticket |-> g.item.ticket,
                          filename |-> <<>>]]
           /\ popped' = g.item.ticket
    /\ cpc' = [cpc EXCEPT !["consumer"] = "load"]
    /\ UNCHANGED <<db_status, db_lines, puts, finished, requests, response, now, files,
                   order_ids, all_items, result, ret>>
    /\ UNCHANGED evars

\* trigger_packing_for_orders: the next id of the list, on the loop's session
DirectNext ==
    /\ cpc["direct"] = "idle"
    /\ LoopFree
    /\ order_ids # <<>>
    /\ job' = [job EXCEPT !["direct"] =
                  [order_id |-> Head(order_ids), ticket |-> 0, filename |-> <<>>]]
    /\ order_ids' = Tail(order_ids)
    /\ cpc' = [cpc EXCEPT !["direct"] = "load"]
    /\ UNCHANGED <<db_status, db_lines, order_queue, puts, popped, finished, requests,
                   response, now, files, all_items, result, ret>>
    /\ UNCHANGED evars

\* process_single_order up to the call of the engine: load the order, its
\* lines and products and build the items; raises stands for a database error
\* in one of the queries, which the except clause turns into rollback and None
Load(c, raises) ==
    /\ cpc[c] = "load"
    /\ LoopFree
    /\ LET o == job[c].order_id
           built == AssignPickingOrder(BuildItems(db_lines[o]))
       IN  IF \/ raises
              \/ db_status[o] = "absent"              \* if not order
              \/ db_status[o] # OrderStatus.NEW
              \/ db_lines[o] = <<>>                    \* if not order_lines
              \/ built = <<>>                          \* if not all_items
           THEN /\ ReturnNone(c)
                /\ finished' = IF c = "consumer" THEN finished + 1 ELSE finished
                /\ UNCHANGED all_items
           ELSE /\ all_items' = [all_items EXCEPT ![c] = built]
                /\ cpc' = [cpc EXCEPT ![c] = "solve"]
                /\ UNCHANGED <<ret, finished>>
    /\ UNCHANGED <<db_status, db_lines, order_queue, puts, popped, requests, response,
                   now, files, order_ids, job, result>>
    /\ UNCHANGED evars

\* piler.solve_multiple_pallets(all_items, pallet_W, pallet_D, pallet_H) returns
Solve(c) ==
    /\ cpc[c] = "solve"
    /\ \E placed \in EngineResults(all_items[c]) :
          result' = [result EXCEPT ![c] = placed]
    /\ cpc' = [cpc EXCEPT ![c] = "write"]
    /\ UNCHANGED <<db_status, db_lines, order_queue, puts, popped, finished, requests,
                   response, now, files, order_ids, job, all_items, ret>>
    /\ UNCHANGED evars

\* filename = Pallets_Json / f"pallet_instructions_..."; json.dump to it
WriteArtifact(c) ==
    /\ cpc[c] = "write"
    /\ LET filename == FileName(OrderNumber(job[c].order_id), now)
       IN  /\ files' = WriteFile(files, filename, now)
           /\ job' = [job EXCEPT ![c].filename = filename]
    /\ cpc' = [cpc EXCEPT ![c] = "status"]
    /\ UNCHANGED <<db_status, db_lines, order_queue, puts, popped, finished, requests,
                   response, now, order_ids, all_items, result, ret>>
    /\ UNCHANGED evars

\* order.status = OrderStatus.READY; db.add(order); await db.commit();
\* return str(filename).  Looking up a name the enum does not have raises
\* AttributeError, and a commit can fail: the except clause rolls back and
\* returns None
Finish(c, commits) ==
    /\ cpc[c] = "status"
    /\ IF "READY" \in DOMAIN OrderStatus /\ commits
       THEN /\ db_status' = [db_status EXCEPT ![job[c].order_id] = OrderStatus["READY"]]
            /\ ret' = [ret EXCEPT ![c] = job[c].filename]
            /\ cpc' = [cpc EXCEPT ![c] = "returned"]
       ELSE /\ ReturnNone(c)
            /\ UNCHANGED db_status
    /\ finished' = IF c = "consumer" THEN finished + 1 ELSE finished
    /\ UNCHANGED <<db_lines, order_queue, puts, popped, requests, response, now, files,
                   order_ids, job, all_items, result>>
    /\ UNCHANGED evars

\* the caller's locals after the call
Forget(c) ==
    /\ cpc' = [cpc EXCEPT ![c] = "idle"]
    /\ job' = [job EXCEPT ![c] = NoJob]
    /\ all_items' = [all_items EXCEPT ![c] = <<>>]
    /\ result' = [result EXCEPT ![c] = {}]
    /\ ret' = [ret EXCEPT ![c] = <<>>]

\* Done of a consumer loop that goes on only after a job that returned a path
MutDone ==
    /\ cpc["consumer"] = "returned"
    /\ ret["consumer"] # <<>>
    /\ LoopFree
    /\ Forget("consumer")
    /\ UNCHANGED <<db_status, db_lines, order_queue, puts, popped, finished, requests,
                   response, now, files, order_ids>>
    /\ UNCHANGED evars

\* process_order_queue after the call: log the outcome, task_done, next round
Done ==
    /\ cpc["consumer"] = "returned"
    /\ LoopFree
    /\ Forget("consumer")
    /\ UNCHANGED <<db_status, db_lines, order_queue, puts, popped, finished, requests,
                   response, now, files, order_ids>>
    /\ UNCHANGED evars

\* trigger_packing_for_orders after the call: print the outcome, next id
DirectDone ==
    /\ cpc["direct"] = "returned"
    /\ LoopFree
    /\ Forget("direct")
    /\ UNCHANGED <<db_status, db_lines, order_queue, puts, popped, finished, requests,
                   response, now, files, order_ids>>
    /\ UNCHANGED evars

\* Put that enqueues the id twice
MutPut(q, order_id) ==
    Append(Append(q, [order_id |-> order_id, ticket |-> puts + 1]),
           [order_id |-> order_id, ticket |-> puts + 1])

\* queue_order_for_packing: await order_queue.put(order_id)
Put(q, order_id) == Append(q, [order_id |-> order_id, ticket |-> puts + 1])

\* POST /{order_id}/trigger-packing
TriggerPacking(order_id) ==
    /\ Serving
    /\ LoopFree
    /\ requests < MaxRequests
    /\ requests' = requests + 1
    /\ IF db_status[order_id] = "absent"
       THEN /\ response' = [order_id |-> order_id, status_code |-> 404]
            /\ UNCHANGED <<order_queue, puts>>
       ELSE IF db_status[order_id] # OrderStatus.NEW
       THEN /\ response' = [order_id |-> order_id, status_code |-> 400]
            /\ UNCHANGED <<order_queue, puts>>
       ELSE /\ order_queue' = Put(order_queue, order_id)
            /\ puts' = puts + 1
            /\ response' = [order_id |-> order_id, status_code |-> 202]
    /\ UNCHANGED <<db_status, db_lines, popped, finished, now, files, order_ids, cpc, job,
                   all_items, result, ret>>
    /\ UNCHANGED evars

\* the statuses a PATCH request carries
StatusInputs == {OrderStatus.NEW, OrderStatus.PICKING}

\* PATCH /{order_id}/status on an existing order
UpdateOrderStatus(order_id, st) ==
    /\ Serving
    /\ LoopFree
    /\ db_status[order_id] \notin {"absent", st}
    /\ db_status' = [db_status EXCEPT ![order_id] = st]
    /\ UNCHANGED <<db_lines, order_queue, puts, popped, finished, requests, response, now,
                   files, order_ids, cpc, job, all_items, result, ret>>
    /\ UNCHANGED evars

\* DELETE /{order_id} on an existing order: its lines and its row
DeleteOrder(order_id) ==
    /\ Serving
    /\ LoopFree
    /\ db_status[order_id] # "absent"
    /\ db_status' = [db_status EXCEPT ![order_id] = "absent"]
    /\ db_lines' = [db_lines EXCEPT ![order_id] = <<>>]
    /\ UNCHANGED <<order_queue, puts, popped, finished, requests, response, now, files,
                   order_ids, cpc, job, all_items, result, ret>>
    /\ UNCHANGED evars

NextService ==
    \/ Pop
    \/ DirectNext
    \/ \E c \in Callers, raises \in BOOLEAN : Load(c, raises)
    \/ \E c \in Callers : Solve(c)
    \/ \E c \in Callers : WriteArtifact(c)
    \/ \E c \in Callers, commits \in BOOLEAN : Finish(c, commits)
    \/ Done
    \/ DirectDone
    \/ \E order_id \in OrderIds : TriggerPacking(order_id)
    \/ \E order_id \in OrderIds, st \in StatusInputs : UpdateOrderStatus(order_id, st)
    \/ \E order_id \in OrderIds : DeleteOrder(order_id)

SpecService == InitService /\ [][NextService]_vars

-----------------------------------------------------------------------------
(* The queue consumer on its own, after start-up: ids wait in the queue    *)
(* (put there by the insert listener and by trigger-packing requests, so   *)
(* an id can wait more than once), the clock runs, and clients read the    *)
(* instructions of an order.                                               *)

\* the service with at most `most` ids waiting
InitQueueOf(most) ==
    /\ pallet = AdapterPallet
    /\ input = <<>>
    /\ items = <<>>
    /\ remaining = <<>>
    /\ all_pallets = <<>>
    /\ pallet_number = 1
    /\ status = "NONE"
    /\ calls = 0
    /\ pc = "start"
    /\ db_status = [o \in OrderIds |-> OrderStatus.NEW]
    /\ \E shift \in 1..Len(LineMenu) : db_lines = OrderLines(shift)
    /\ order_ids = <<>>
    /\ \E n \in 0..most : \E ids \in [1..n -> OrderIds] :
          /\ order_queue = [k \in 1..n |-> [order_id |-> ids[k], ticket |-> k]]
          /\ puts = n
    /\ popped = 0
    /\ finished = 0
    /\ requests = 0
    /\ response = NoResponse
    /\ now = 0
    /\ files = {}
    /\ cpc = [c \in Callers |-> "idle"]
    /\ job = [c \in Callers |-> NoJob]
    /\ all_items = [c \in Callers |-> <<>>]
    /\ result = [c \in Callers |-> {}]
    /\ ret = [c \in Callers |-> <<>>]

InitQueue == InitQueueOf(MaxQueued)

\* a second of wall-clock time passes
Tick ==
    /\ now < MaxTime
    /\ now' = now + 1
    /\ UNCHANGED <<db_status, db_lines, order_queue, puts, popped, finished, requests,
                   response, files, order_ids, cpc, job, all_items, result, ret>>
    /\ UNCHANGED evars

\* sorted(glob(pattern), key=st_mtime, reverse=True)[0]: a matching file none of
\* the matching files is newer than
Latest(dir, pattern) ==
    { f \in dir : /\ GlobMatch(pattern, f.name)
                  /\ \A g \in dir : GlobMatch(pattern, g.name) => g.mtime <= f.mtime }

\* GET /{order_id}/pallet-instructions
GetPalletInstructions(order_id) ==
    /\ LoopFree
    /\ IF db_status[order_id] = "absent"
       THEN response' = [order_id |-> order_id, status_code |-> 404]
       ELSE LET latest == Latest(files, Pattern(OrderNumber(order_id)))
            IN  IF latest = {}                           \* if not matching_files
                THEN response' = [order_id |-> order_id, status_code |-> 404]
                ELSE \E latest_file \in latest :
                        response' = [order_id |-> order_id, status_code |-> 200,
                                     file |-> latest_file.name]
    /\ UNCHANGED <<db_status, db_lines, order_queue, puts, popped, finished, requests,
                   now, files, order_ids, cpc, job, all_items, result, ret>>
    /\ UNCHANGED evars

NextQueue ==
    \/ Pop
    \/ \E raises \in BOOLEAN : Load("consumer", raises)
    \/ Solve("consumer")
    \/ WriteArtifact("consumer")
    \/ \E commits \in BOOLEAN : Finish("consumer", commits)
    \/ Done
    \/ Tick
    \/ \E order_id \in OrderIds : GetPalletInstructions(order_id)

SpecQueue == InitQueue /\ [][NextQueue]_vars

\* the event loop resumes the consumer task whenever it can run, every database
\* call it awaits comes back, and the engine returns
ConsumerFairness ==
    /\ WF_vars(Pop)
    /\ WF_vars(\E raises \in BOOLEAN : Load("consumer", raises))
    /\ WF_vars(Solve("consumer"))
    /\ WF_vars(WriteArtifact("consumer"))
    /\ WF_vars(\E commits \in BOOLEAN : Finish("consumer", commits))
    /\ WF_vars(Done)

\* the consumer and the requests that feed its queue
NextConsumer ==
    \/ Pop
    \/ \E raises \in BOOLEAN : Load("consumer", raises)
    \/ Solve("consumer")
    \/ WriteArtifact("consumer")
    \/ \E commits \in BOOLEAN : Finish("consumer", commits)
    \/ Done
    \/ \E order_id \in OrderIds : TriggerPacking(order_id)

\* the queue is empty when the first request comes in
InitConsumer == InitQueueOf(0)

SpecConsumerFair == InitConsumer /\ [][NextConsumer]_vars /\ ConsumerFairness

-----------------------------------------------------------------------------
(* The picking-order assigner of process_single_order on its own: the      *)
(* start-up caller holds a list of built items whose products are stocked  *)
(* at any of the warehouse's locations.                                    *)

InitAssign ==
    /\ pallet = AdapterPallet
    /\ input = <<>>
    /\ items = <<>>
    /\ remaining = <<>>
    /\ all_pallets = <<>>
    /\ pallet_number = 1
    /\ status = "NONE"
    /\ calls = 0
    /\ pc = "start"
    /\ db_status = [o \in OrderIds |-> OrderStatus.NEW]
    /\ db_lines = [o \in OrderIds |-> <<>>]
    /\ order_ids = <<>>
    /\ order_queue = <<>>
    /\ puts = 0
    /\ popped = 0
    /\ finished = 0
    /\ requests = 0
    /\ response = NoResponse
    /\ now = 0
    /\ files = {}
    /\ cpc = [c \in Callers |-> IF c = "direct" THEN "assign" ELSE "idle"]
    /\ job = [c \in Callers |-> IF c = "direct" THEN [NoJob EXCEPT !.order_id = 1] ELSE NoJob]
    /\ \E n \in 1..MaxLocated : \E codes \in [1..n -> LocationCodes] :
          all_items = [c \in Callers |->
                         IF c = "direct"
                         THEN [k \in 1..n |-> NewItem(Stocked(Products[1], codes[k]), k - 1)]
                         ELSE <<>>]
    /\ result = [c \in Callers |-> {}]
    /\ ret = [c \in Callers |-> <<>>]

\* lines 93-96 of process_single_order: every item of all_items gets its picking_order
Assign(c) ==
    /\ cpc[c] = "assign"
    /\ all_items' = [all_items EXCEPT ![c] = AssignPickingOrder(all_items[c])]
    /\ cpc' = [cpc EXCEPT ![c] = "solve"]
    /\ UNCHANGED <<db_status, db_lines, order_queue, puts, popped, finished, requests,
                   response, now, files, order_ids, job, result, ret>>
    /\ UNCHANGED evars

NextAssign == \E c \in Callers : Assign(c)

SpecAssign == InitAssign /\ [][NextAssign]_vars

-----------------------------------------------------------------------------
(* Properties of the packing result *)

\* the records on pallet k
OnPallet(k) == { all_pallets[k].items[m] : m \in 1..Len(all_pallets[k].items) }

\* the input item a record was emitted for
ItemOf(r) == CHOOSE it \in { input[i] : i \in 1..Len(input) } : it.id = r.id

\* the footprints of two records overlap with positive area
FootprintsOverlap(a, b) ==
    /\ a.x < b.x + b.w /\ b.x < a.x + a.w
    /\ a.y < b.y + b.d /\ b.y < a.y + a.d

\* record a rests on record b: b's top face at a's base, a's footprint within b's
\* top face up to 5% of a's edge on each axis
RestsOn(a, b) ==
    LET t_w == (5 * a.w) \div 100
        t_d == (5 * a.d) \div 100
    IN  /\ b.z + b.h = a.z
        /\ b.x - t_w <= a.x /\ a.x + a.w <= b.x + b.w + t_w
        /\ b.y - t_d <= a.y /\ a.y + a.d <= b.y + b.d + t_d

\* a rests on b through at most n further supporters taken from S
RECURSIVE RestsThrough(_, _, _, _)
RestsThrough(S, a, b, n) ==
    \/ RestsOn(a, b)
    \/ n > 0 /\ \E c \in S \ {a, b} : RestsOn(a, c) /\ RestsThrough(S \ {a}, c, b, n - 1)

\* C1 Containment: every emitted record lies inside the pallet:
\* x, y, z >= 0 and x + w <= W, y + d <= D, z + h <= H with the emitted dimensions
C1_Containment ==
    \A k \in 1..Len(all_pallets) : \A r \in OnPallet(k) :
        /\ r.x >= 0 /\ r.y >= 0 /\ r.z >= 0
        /\ r.x + r.w <= pallet.W
        /\ r.y + r.d <= pallet.D
        /\ r.z + r.h <= pallet.H

\* a record that touches the far faces of the pallet from a raised, shifted origin
C1_Witness ==
    \E k \in 1..Len(all_pallets) : \E r \in OnPallet(k) :
        /\ r.x > 0 /\ r.z > 0
        /\ r.x + r.w = pallet.W /\ r.z + r.h = pallet.H

\* C2 Non-overlap: two distinct records of one pallet are separated along an axis
C2_NonOverlap ==
    \A k \in 1..Len(all_pallets) : \A a, b \in OnPallet(k) :
        a.id # b.id =>
            \/ a.x + a.w <= b.x \/ b.x + b.w <= a.x
            \/ a.y + a.d <= b.y \/ b.y + b.d <= a.y
            \/ a.z + a.h <= b.z \/ b.z + b.h <= a.z

\* two records side by side on one level with a common face
C2_Witness ==
    \E k \in 1..Len(all_pallets) : \E a, b \in OnPallet(k) :
        /\ a.id # b.id
        /\ a.x + a.w = b.x /\ a.z = b.z
        /\ a.y < b.y + b.d /\ b.y < a.y + a.d

\* C3 Support without phantom supporters: every record is on the floor or rests
\* on another record of the same pallet, within the 5% tolerance
C3_Support ==
    \A k \in 1..Len(all_pallets) : \A a \in OnPallet(k) :
        \/ a.z = 0
        \/ \E b \in OnPallet(k) : b.id # a.id /\ RestsOn(a, b)

\* a record that rests on another one only thanks to the tolerance: it overhangs
C3_Witness ==
    \E k \in 1..Len(all_pallets) : \E a, b \in OnPallet(k) :
        /\ a.id # b.id /\ a.z > 0 /\ RestsOn(a, b)
        /\ a.x + a.w > b.x + b.w
        /\ \A c \in OnPallet(k) : (c.id # a.id /\ RestsOn(a, c)) => c = b

\* C4 Picking order: a record with the smaller picking_order never rests on one
\* with the greater, directly or through supporters, and is never over it
C4_PickingOrder ==
    \A k \in 1..Len(all_pallets) : \A a, b \in OnPallet(k) :
        a.picking_order < b.picking_order =>
            /\ ~RestsThrough(OnPallet(k), a, b, Cardinality(OnPallet(k)))
            /\ ~(a.z >= b.z + b.h /\ FootprintsOverlap(a, b))

\* a later-picked record rests on an earlier-picked one
C4_Witness ==
    \E k \in 1..Len(all_pallets) : \E a, b \in OnPallet(k) :
        a.picking_order < b.picking_order /\ RestsOn(b, a)

\* C5 Fragility: no record is over a fragile one
C5_Fragility ==
    \A k \in 1..Len(all_pallets) : \A f, r \in OnPallet(k) :
        (f.id # r.id /\ ItemOf(f).is_fragile) =>
            /\ ~(r.z >= f.z + f.h /\ FootprintsOverlap(r, f))
            /\ ~RestsOn(r, f)

\* a fragile record rests on a record that is not fragile
C5_Witness ==
    \E k \in 1..Len(all_pallets) : \E f, r \in OnPallet(k) :
        /\ ItemOf(f).is_fragile /\ ~ItemOf(r).is_fragile
        /\ RestsOn(f, r)

\* C6 Upright preserved: a record of an upright-only item is not tipped, keeps
\* the item's height and has the item's base as footprint
C6_Upright ==
    \A k \in 1..Len(all_pallets) : \A r \in OnPallet(k) :
        ~ItemOf(r).allow_tipping =>
            /\ r.tipped = FALSE
            /\ r.h = ItemOf(r).h
            /\ {r.w, r.d} = {ItemOf(r).w, ItemOf(r).d}

\* an upright-only item whose edges differ is placed, spun
C6_Witness ==
    \E k \in 1..Len(all_pallets) : \E r \in OnPallet(k) :
        /\ ~ItemOf(r).allow_tipping
        /\ ItemOf(r).w # ItemOf(r).h
        /\ r.w = ItemOf(r).d /\ r.d = ItemOf(r).w

\* the positions <<k, m>> at which the item with this id is recorded
Recorded(id) ==
    { km \in (1..Len(all_pallets)) \X (1..Len(input)) :
        /\ km[2] <= Len(all_pallets[km[1]].items)
        /\ all_pallets[km[1]].items[km[2]].id = id }

\* C7 Completeness: when the loop ends with nothing remaining, every input item
\* is recorded exactly once and every record is that of an input item
C7_Completeness ==
    (pc = "done" /\ remaining = <<>>) =>
        /\ \A i \in 1..Len(input) : Cardinality(Recorded(input[i].id)) = 1
        /\ \A k \in 1..Len(all_pallets) : \A r \in OnPallet(k) :
              \E i \in 1..Len(input) :
                 /\ input[i].id = r.id
                 /\ input[i].name = r.name
                 /\ input[i].picking_order = r.picking_order
                 /\ {input[i].w, input[i].d, input[i].h} = {r.w, r.d, r.h}

\* the loop ended with nothing remaining after filling more than one pallet
C7_Witness ==
    /\ pc = "done" /\ remaining = <<>>
    /\ Len(all_pallets) >= 2
    /\ input # PreSort(input)

\* C8 The driver halts early only when nothing fits: once solve_multiple_pallets
\* has returned, an input item that is on no pallet does not fit alone on an
\* empty pallet
C8_HaltsOnlyWhenNothingFits ==
    pc = "done" =>
        \A i \in 1..Len(input) :
            Recorded(input[i].id) = {} => ~FitsAlone(input[i], pallet)

\* C9 No infeasibility mid-pack: the model of a candidate list whose items each
\* fit alone is never INFEASIBLE (on INFEASIBLE the candidate list is what remains)
C9_NeverInfeasible ==
    status = "INFEASIBLE" =>
        \E i \in 1..Len(remaining) : ~FitsAlone(remaining[i], pallet)

\* C10 Upright enforcement scenario: one upright-only item 10x10x60 on a
\* 100x100x100 pallet ends on one pallet, not tipped, 60 high
C10_UprightScenario ==
    ( /\ pc = "done"
      /\ pallet = [W |-> 100, D |-> 100, H |-> 100]
      /\ Len(input) = 1
      /\ input[1].w = 10 /\ input[1].d = 10 /\ input[1].h = 60
      /\ ~input[1].allow_tipping )
    => /\ Len(all_pallets) = 1
       /\ Len(all_pallets[1].items) = 1
       /\ all_pallets[1].items[1].id = input[1].id
       /\ all_pallets[1].items[1].tipped = FALSE
       /\ all_pallets[1].items[1].h = 60

\* C11 Aspect limits: the emitted height of every record is at most three times
\* its shorter emitted base edge, and the record of an item higher than three
\* times its shorter base edge is tipped
C11_AspectLimits ==
    \A k \in 1..Len(all_pallets) : \A r \in OnPallet(k) :
        /\ r.h <= MAX_H_TO_BASE_RATIO * Min2(r.w, r.d)
        /\ (ItemOf(r).h > MAX_H_TO_BASE_RATIO * Min2(ItemOf(r).w, ItemOf(r).d))
              => r.tipped

\* a pencil higher than three times its base is placed lying on its long side
C11_Witness ==
    \E k \in 1..Len(all_pallets) : \E r \in OnPallet(k) :
        /\ ItemOf(r).h > MAX_H_TO_BASE_RATIO * Min2(ItemOf(r).w, ItemOf(r).d)
        /\ r.tipped /\ r.h = ItemOf(r).w
        /\ r.h <= MAX_H_TO_BASE_RATIO * Min2(r.w, r.d)

\* C12 Picking order by height alone: of two records of one pallet, the one with
\* the greater picking_order never ends at or below the base of the one with the
\* smaller picking_order, also when they stand in different columns
C12_PickingOrderAxis ==
    \A k \in 1..Len(all_pallets) : \A i, j \in OnPallet(k) :
        i.picking_order < j.picking_order => ~(j.z + j.h <= i.z)

\* return all_pallets: the value solve_multiple_pallets hands to its caller
ReturnValue == all_pallets

\* the item ids that occur in a value returned by solve_multiple_pallets
IdsIn(value) ==
    UNION { { value[k].items[m].id : m \in 1..Len(value[k].items) } :
            k \in 1..Len(value) }

\* C13 Critical-failure reporting: when the driver has stopped on a solve without
\* placements while items remain, the returned value holds the ids of the items
\* left unplaced next to the pallets built so far
C13_CriticalFailureReport ==
    (pc = "done" /\ Len(remaining) > 0) =>
        \A i \in 1..Len(remaining) : remaining[i].id \in IdsIn(ReturnValue)

-----------------------------------------------------------------------------
(* Properties of the packing service *)

\* the step in which the process_single_order call of caller c returns
Returns(c) == cpc[c] \in {"load", "status"} /\ cpc'[c] = "returned"

\* every built item of the call of caller c is on a pallet of the engine's result
AllPlaced(c) == result[c] = 1..Len(all_items[c])

C15_SuccessfulJob ==
    [][ \A c \in Callers :
          (cpc[c] = "status" /\ cpc'[c] = "returned") =>
            /\ job[c].filename \in Names(files')
            /\ db_status'[job[c].order_id] = "ready"
            /\ ret'[c] = job[c].filename
            /\ \A o \in OrderIds :
                  db_status'[o] = "ready"
                     => \E s \in 0..MaxTime : FileName(OrderNumber(o), s) \in Names(files') ]_vars

\* C16 No artifact of a failed job: when process_single_order returns None, no
\* file with the name this call computed is in the artifact directory
C16_NoArtifactOnFailure ==
    [][ \A c \in Callers :
          (Returns(c) /\ ret'[c] = <<>>) => job[c].filename \notin Names(files') ]_vars

\* C17 FIFO processing: the entries waiting in the queue carry the tickets that
\* follow the one the consumer took last, in order, none is lost, and all jobs
\* before the one the consumer took last have returned
C17_Fifo ==
    /\ \A k \in 1..Len(order_queue) : order_queue[k].ticket = popped + k
    /\ puts = popped + Len(order_queue)
    /\ finished = IF cpc["consumer"] \in {"idle", "returned"} THEN popped ELSE popped - 1

\* the consumer runs the job of the second put while a third entry waits
C17_Witness ==
    /\ popped = 2
    /\ finished = 1
    /\ cpc["consumer"] \in {"load", "solve", "write", "status"}
    /\ Len(order_queue) >= 1

\* C18 Serialized engine use: at most one caller is inside solve_multiple_pallets
\* and the consumer has at most one job that has not returned
C18_Serialized ==
    /\ Cardinality({ c \in Callers : cpc[c] = "solve" }) <= 1
    /\ popped - finished \in {0, 1}
    /\ (cpc["consumer"] = "idle") => popped = finished

\* the consumer is inside the engine while the start-up loop has a call open
C18_Witness ==
    /\ cpc["consumer"] = "solve"
    /\ cpc["direct"] = "load"
    /\ popped - finished = 1

\* the order ids waiting in a queue
QueuedIds(q) == [k \in 1..Len(q) |-> q[k].order_id]

\* C19 Trigger endpoint: a request is answered 202 with the id appended once
\* exactly when the order exists with status NEW, 404 exactly when it does not
\* exist and 400 otherwise, the queue unchanged in both; and the queue loses an
\* entry only by the consumer taking the oldest one
C19_TriggerEndpoint ==
    [][ /\ requests' # requests =>
             LET r  == response'
                 st == db_status[r.order_id]
             IN  /\ r.status_code = 202 <=> st = OrderStatus.NEW
                 /\ r.status_code = 404 <=> st = "absent"
                 /\ r.status_code = 400 <=> st \notin {"absent", OrderStatus.NEW}
                 /\ IF r.status_code = 202
                    THEN QueuedIds(order_queue') =
                            Append(QueuedIds(order_queue), r.order_id)
                    ELSE order_queue' = order_queue
        /\ (\E k \in 1..Len(order_queue) :
               k > Len(order_queue') \/ order_queue'[k] # order_queue[k])
             => /\ order_queue' = Tail(order_queue)
                /\ cpc["consumer"] = "idle" /\ cpc'["consumer"] = "load" ]_vars

\* a request for a NEW order has been answered 202 and its id is the newest in
\* the queue, behind another entry
C19_Witness ==
    /\ response.status_code = 202
    /\ Len(order_queue) >= 2
    /\ order_queue[Len(order_queue)].order_id = response.order_id

\* C20 Distinct item ids: the items built for one order have pairwise distinct ids
C20_DistinctItemIds ==
    \A c \in Callers : \A i, j \in 1..Len(all_items[c]) :
        i # j => all_items[c][i].id # all_items[c][j].id

\* the locations of the items built for the call of caller c
LocationsOf(c) == { all_items[c][k].location : k \in 1..Len(all_items[c]) }

\* C21 Picking-order assignment: once the assigner has run on the built items
\* with N distinct location codes, the picking_order values in use are exactly
\* 1..N, and of two items the one with the lexicographically smaller location has
\* the smaller picking_order, equal locations having equal picking_order
C21_PickingOrderAssignment ==
    \A c \in Callers :
        cpc[c] \in SyncPositions =>
            LET its == all_items[c]
            IN  /\ { its[k].picking_order : k \in 1..Len(its) }
                      = 1..Cardinality(LocationsOf(c))
                /\ \A a, b \in 1..Len(its) :
                      /\ its[a].picking_order < its[b].picking_order
                            <=> LexLess(its[a].location, its[b].location)
                      /\ its[a].picking_order = its[b].picking_order
                            <=> its[a].location = its[b].location

\* the assigner has run on items from "2", "10" and "": the list was not in the
\* order of its locations, and "10" is ranked before "2"
C21_Witness ==
    /\ cpc["direct"] = "solve"
    /\ Len(all_items["direct"]) = 3
    /\ all_items["direct"][1].location = <<2>> /\ all_items["direct"][1].picking_order = 3
    /\ all_items["direct"][2].location = <<1, 0>> /\ all_items["direct"][2].picking_order = 2
    /\ all_items["direct"][3].location = <<>> /\ all_items["direct"][3].picking_order = 1

\* the item ids of the records of one pallet
IdsOf(packed) == { packed[m].id : m \in 1..Len(packed) }

\* the ids on the pallet a pass of the driver loop has appended, none after a break
Appended == IF Len(all_pallets') > Len(all_pallets)
            THEN IdsOf(all_pallets'[Len(all_pallets')].items)
            ELSE {}

\* C22 Determinism of structure: a second run on the same items, pallet and
\* weights gets the same pallets.  Two runs are the same up to the first solver
\* call that answers differently, so: whatever solve_single_pallet can return for
\* the candidate list of a pass places the same set of item ids as what it did
\* return in this pass
C22_Determinism ==
    [][ calls' = calls + 1 =>
          \A r \in SolveSinglePallet(remaining, pallet, FALSE) :
              IdsOf(r.packed) = Appended ]_vars

\* C23 At-most-once packing under interleaving: the queue consumer and the
\* start-up loop never both hold a call for one order in which each found the
\* order NEW, ran the engine and wrote an artifact
C23_AtMostOncePacking ==
    \A c1, c2 \in Callers :
        (c1 # c2 /\ job[c1].order_id # 0 /\ job[c1].order_id = job[c2].order_id)
            => ~(job[c1].filename # <<>> /\ job[c2].filename # <<>>)

\* the files of a directory that packing jobs of order o wrote
ArtifactsOf(dir, o) ==
    { f \in dir : \E s \in 0..MaxTime : f.name = FileName(OrderNumber(o), s) }

\* C24 Duplicate enqueue is harmless: of the jobs the consumer runs for an id
\* that waits in the queue more than once, only the first runs the engine and
\* writes an artifact; a job that finds an artifact of its order returns at the
\* status check and leaves the order's status and the directory as they are
C24_DuplicateEnqueueHarmless ==
    [][ LET o == job["consumer"].order_id
        IN  /\ (cpc["consumer"] = "write" /\ cpc'["consumer"] = "status")
                  => ArtifactsOf(files, o) = {}
            /\ (cpc["consumer"] = "load" /\ cpc'["consumer"] # "load"
                   /\ ArtifactsOf(files, o) # {})
                  => /\ cpc'["consumer"] = "returned"
                     /\ db_status' = db_status /\ files' = files ]_vars

\* C28 Consumer liveness: the entry of every put is eventually taken from the
\* queue and handed to process_single_order, whatever became of the jobs before it
C28_ConsumerLiveness ==
    \A k \in 1..MaxRequests : (puts >= k) ~> (popped >= k)

\* the entry of the second request has been handed over after the first job
\* returned None without having written an artifact
C28_Witness ==
    /\ popped = 2
    /\ finished = 1
    /\ cpc["consumer"] = "load"
    /\ files = {}
    /\ response.status_code = 202 /\ response.order_id = job["consumer"].order_id

\* C29 Artifact isolation: the file get_pallet_instructions reads for an order
\* is an artifact written by a packing job of that order, the most recently
\* modified of them
C29_ArtifactIsolation ==
    [][ (response' # response /\ "file" \in DOMAIN response') =>
          LET own == ArtifactsOf(files, response'.order_id)
          IN  \E f \in own :
                 /\ f.name = response'.file
                 /\ \A g \in own : g.mtime <= f.mtime ]_vars

-----------------------------------------------------------------------------
(* Properties of the driver loop and of the model's objective and table *)

\* s is a subsequence of t: the elements of s occur in t in the same order
RECURSIVE IsSubsequence(_, _)
IsSubsequence(s, t) ==
    IF s = <<>> THEN TRUE
    ELSE IF t = <<>> THEN FALSE
    ELSE IF Head(s) = Head(t) THEN IsSubsequence(Tail(s), Tail(t))
    ELSE IsSubsequence(s, Tail(t))

\* the positions of the remaining list that hold the item with this id
Waiting(id) == { k \in 1..Len(remaining) : remaining[k].id = id }

\* the number of records on all pallets
RecordCount == Sum([k \in 1..Len(all_pallets) |-> Len(all_pallets[k].items)], Len(all_pallets))

\* C25 Conservation in the driver loop: at the loop head and after the loop every
\* input item is either recorded once on one pallet or once in the remaining
\* list, nothing else is recorded or remaining, and the remaining list is a
\* subsequence of the pre-sorted input; so after an early halt the items missing
\* from the output are exactly the remaining ones
C25_Conservation ==
    pc \in {"loop", "done"} =>
        /\ \A i \in 1..Len(input) :
              Cardinality(Recorded(input[i].id)) + Cardinality(Waiting(input[i].id)) = 1
        /\ RecordCount + Len(remaining) = Len(input)
        /\ IsSubsequence(remaining, PreSort(input))
        /\ pc = "done" =>
              { input[i].id : i \in 1..Len(input) } \ IdsIn(all_pallets)
                 = { remaining[k].id : k \in 1..Len(remaining) }

\* the driver has halted early after a first pallet, and what remains is not
\* the head of the sorted list
C25_Witness ==
    /\ pc = "done"
    /\ Len(all_pallets) >= 1
    /\ Len(remaining) >= 1
    /\ remaining[1] # items[1]

\* C26 The volume reward dominates: an optimal solution of a model in which some
\* candidate fits alone on the empty pallet packs at least one item (after an
\* optimal solve without placements the candidates are the remaining list)
C26_VolumeDominates ==
    (pc = "done" /\ status = "OPTIMAL" /\ Len(remaining) > 0) =>
        \A i \in 1..Len(remaining) : ~FitsAlone(remaining[i], pallet)

\* C27 Driver termination: solve_multiple_pallets makes at most n calls of
\* solve_single_pallet for n items and builds at most n pallets, none of them
\* empty; every step it takes is the sort, one more call or the return, none
\* follows the return, and it has stopped exactly when nothing remains or the
\* last solve placed nothing
C27_DriverTermination ==
    /\ [](/\ calls <= Len(input)
          /\ Len(all_pallets) <= Len(input)
          /\ \A k \in 1..Len(all_pallets) : Len(all_pallets[k].items) >= 1
          /\ pc = "done" => (remaining = <<>> \/ calls = Len(all_pallets) + 1)
          /\ pc = "loop" => calls = Len(all_pallets))
    /\ [][ /\ pc # "done"
           /\ \/ pc = "start" /\ pc' = "loop" /\ calls' = calls
              \/ /\ pc = "loop" /\ Len(remaining) > 0 /\ calls' = calls + 1
                 /\ pc' = IF Len(all_pallets') = Len(all_pallets) THEN "done" ELSE "loop"
              \/ pc = "loop" /\ remaining = <<>> /\ pc' = "done" /\ calls' = calls ]_vars

\* the driver has returned after as many calls as there are items, more than one
C27_Witness ==
    /\ pc = "done"
    /\ calls = Len(input)
    /\ calls >= 2
    /\ remaining = <<>>

\* the six orders of three edges
EdgeOrders(w, d, h) ==
    { <<w, d, h>>, <<w, h, d>>, <<d, w, h>>, <<d, h, w>>, <<h, w, d>>, <<h, d, w>> }

\* C30 Rotation table and tipped flag: the table reaches all six orders of an
\* item's edges; the emitted (w, d, h) of a record is one of them, so the volume
\* is that of the item; a record that is not tipped has the item's height and
\* the item's base edges, a tipped one stands on the item's w or d
C30_RotationTable ==
    /\ \A i \in 1..Len(input) :
          { LET e == EffDims(input[i], o, spin) IN <<e.w, e.d, e.h>> :
              o \in 0..2, spin \in BOOLEAN }
            = EdgeOrders(input[i].w, input[i].d, input[i].h)
    /\ \A k \in 1..Len(all_pallets) : \A r \in OnPallet(k) :
          LET it == ItemOf(r)
          IN  /\ <<r.w, r.d, r.h>> \in EdgeOrders(it.w, it.d, it.h)
              /\ r.w * r.d * r.h = it.volume
              /\ ~r.tipped => (r.h = it.h /\ {r.w, r.d} = {it.w, it.d})
              /\ r.tipped => r.h \in {it.w, it.d}

\* a board is recorded stood on its long edge: its height is the item's width
\* and its width the item's height
C30_Witness ==
    \E k \in 1..Len(all_pallets) : \E r \in OnPallet(k) :
        /\ r.tipped
        /\ ItemOf(r).w # ItemOf(r).h
        /\ r.h = ItemOf(r).w /\ r.w = ItemOf(r).h /\ r.d = ItemOf(r).d

====
